---- MODULE Spec2Model ----
(***************************************************************************)
(* Model of plugins/modules/install_from_github.py (QueraTeam/ansible-     *)
(* github): AssetSelector, move_paths, is_download_required and main.      *)
(*                                                                         *)
(* Strings are sequences of one-character strings, so that regular         *)
(* expression matching, lower-casing and stripping are computed.           *)
(***************************************************************************)
EXTENDS Integers, Sequences, FiniteSets, TLC

\* ------------------------------------------------------------------------
\* Bounds
\* ------------------------------------------------------------------------
MaxAssets == 3
MaxSources == 2
MaxRuns == 2

\* ------------------------------------------------------------------------
\* Characters and strings
\* ------------------------------------------------------------------------
UpperChars == <<"A","B","C","D","E","F","G","H","I","J","K","L","M",
                "N","O","P","Q","R","S","T","U","V","W","X","Y","Z">>
LowerChars == <<"a","b","c","d","e","f","g","h","i","j","k","l","m",
                "n","o","p","q","r","s","t","u","v","w","x","y","z">>
DigitChars == {"0","1","2","3","4","5","6","7","8","9"}
AlnumChars == {UpperChars[i] : i \in 1..26} \cup {LowerChars[i] : i \in 1..26} \cup DigitChars

\* str.lower() on one character
LowerChar(c) ==
  IF \E i \in 1..26 : UpperChars[i] = c
    THEN LowerChars[CHOOSE i \in 1..26 : UpperChars[i] = c]
    ELSE c

\* str.lower()
Lower(s) == [i \in 1..Len(s) |-> LowerChar(s[i])]

\* the substring test  `sub in s`
Contains(s, sub) ==
  \E i \in 1..(Len(s) - Len(sub) + 1) : SubSeq(s, i, i + Len(sub) - 1) = sub

\* the suffix of s that starts after the first k characters
Drop(s, k) == SubSeq(s, k + 1, Len(s))

\* ------------------------------------------------------------------------
\* Regular expressions: a pattern is a sequence of elements, each a literal
\* character or ".*"
\* ------------------------------------------------------------------------
RECURSIVE FullMatch(_, _)
FullMatch(pat, s) ==
  IF pat = <<>> THEN s = <<>>
  ELSE IF Head(pat) = ".*"
    THEN \E k \in 0..Len(s) : FullMatch(Tail(pat), Drop(s, k))
    ELSE s # <<>> /\ Head(s) = Head(pat) /\ FullMatch(Tail(pat), Tail(s))

\* ------------------------------------------------------------------------
\* Asset names, architecture tokens, systems, patterns
\* ------------------------------------------------------------------------
S_x86_64  == <<"x","8","6","_","6","4">>
S_amd64   == <<"a","m","d","6","4">>
S_aarch64 == <<"a","a","r","c","h","6","4">>
S_arm64   == <<"a","r","m","6","4">>
S_riscv64 == <<"r","i","s","c","v","6","4">>
S_64      == <<"6","4">>
S_x64     == <<"x","6","4">>
S_linux   == <<"l","i","n","u","x">>
S_darwin  == <<"d","a","r","w","i","n">>

N_tool_64         == <<"t","o","o","l","-","6","4",".","z","i","p">>
N_tool_arm64      == <<"t","o","o","l","-","a","r","m","6","4",".","z","i","p">>
N_tool_amd64_lin  == <<"t","o","o","l","-","a","m","d","6","4","-","l","i","n","u","x",".","z","i","p">>
N_Tool_x86_64_Lin == <<"T","o","o","l","_","X","8","6","_","6","4","_","L","i","n","u","x",".","z","i","p">>
N_app_arm64_linux == <<"a","p","p","-","a","r","m","6","4","-","l","i","n","u","x">>
N_armv7           == <<"a","r","m","v","7">>

AssetNames == {N_tool_64, N_tool_arm64, N_tool_amd64_lin, N_Tool_x86_64_Lin,
               N_app_arm64_linux, N_armv7}

P_any      == <<".*">>
P_tool_zip == <<"t","o","o","l","-",".*",".","z","i","p">>
P_a_any    == <<"a",".*">>
P_any_zip  == <<".*",".","z","i","p">>
P_armv7    == <<"a","r","m","v","7">>

Patterns == {P_any, P_tool_zip, P_a_any, P_any_zip, P_armv7}
Machines == {S_amd64, S_arm64, S_riscv64}
Systems  == {S_linux, S_darwin}

\* a value of asset_arch_mapping: a single string or a list of strings
StrVal(s)  == [type |-> "str",  s |-> s,    l |-> <<>>]
ListVal(l) == [type |-> "list", s |-> <<>>, l |-> l]

M_empty == [k \in {} |-> StrVal(<<>>)]
M_doc   == [k \in {S_amd64} |-> StrVal(S_64)]
M_list  == [k \in {S_arm64} |-> ListVal(<<S_x64, S_arm64>>)]
M_two   == [k \in {S_amd64, S_x86_64} |-> IF k = S_amd64 THEN StrVal(S_64) ELSE ListVal(<<S_x64>>)]

ArchMappings == {M_empty, M_doc, M_list, M_two}

\* sequences without repetition, of length n, over S
RECURSIVE DistinctSeqs(_, _)
DistinctSeqs(S, n) ==
  IF n = 0 THEN {<<>>}
  ELSE UNION {{Append(q, x) : x \in S \ {q[i] : i \in 1..Len(q)}} : q \in DistinctSeqs(S, n - 1)}

Asset(n) == [name |-> n]

AssetLists ==
  UNION {{[i \in 1..Len(q) |-> Asset(q[i])] : q \in DistinctSeqs(AssetNames, n)} : n \in 0..MaxAssets}

\* ------------------------------------------------------------------------
\* State
\* ------------------------------------------------------------------------
VARIABLES
  assets,              \* release_info["assets"]
  asset_regex,         \* module.params["asset_regex"]
  asset_arch_mapping,  \* module.params["asset_arch_mapping"]
  machine,             \* platform.machine().lower()
  system,              \* AssetSelector.system
  architectures,       \* AssetSelector.architectures
  selection,           \* outcome of select_asset
  spc,                 \* position in the selector: "new", "constructed", "selected"
  fs,                  \* the filesystem: path -> node, for the paths that exist
  fs0,                 \* the filesystem when move_paths was called
  paths_to_move,       \* the pending move set, a dict in insertion order
  mpc,                 \* position in move_paths: "idle", "start", "exec", "done", "failed"
  idx,                 \* index of the next destination of the executing loop
  changed,             \* the local variable changed of move_paths
  moved,               \* the sources shutil.move has moved in this call
  merr,                \* why move_paths failed ("" if it has not)
  repo,                \* module.params["repo"]
  move_rules,          \* module.params["move_rules"]
  archive,             \* what unpacking the downloaded asset puts under extract_dir
  tag_name,            \* release_info["tag_name"]
  version_file,        \* module.params["version_file"] ("" if not given)
  version_command,     \* module.params["version_command"] ("" if not given)
  version_file_content, \* the version file: whether it exists, and its content
  content0,            \* the version file when the run started
  probe,               \* what running version_command does on this host
  pc,                  \* position in main
  verdict,             \* outcome of is_download_required in this run
  exit,                \* how the run ended
  ops,                 \* what the run has done: select, download, move, write
  run,                 \* number of the run
  prev,                \* the previous run: whether it installed, and which tag
  walk,                \* the items the loop over os.walk has still to visit
  cpc                  \* position in the classifying loop: "idle", "walking", "classified"

selVars  == <<assets, asset_regex, asset_arch_mapping, machine, system,
              architectures, selection, spc>>
mvVars   == <<fs, fs0, paths_to_move, mpc, idx, changed, moved, merr>>
mainVars == <<repo, move_rules, archive, tag_name, version_file, version_command,
              version_file_content, content0, probe, pc, verdict, exit, ops, run, prev>>
clsVars  == <<walk, cpc>>
vars     == <<selVars, mvVars, mainVars, clsVars>>

\* ------------------------------------------------------------------------
\* AssetSelector
\* ------------------------------------------------------------------------
\* the built-in table of AssetSelector.__init__
CanonicalArchitectures(m) ==
  IF m \in {S_x86_64, S_amd64} THEN <<S_x86_64, S_amd64>>
  ELSE IF m \in {S_aarch64, S_arm64} THEN <<S_aarch64, S_arm64>>
  ELSE <<m>>

SeqToSet(q) == {q[i] : i \in 1..Len(q)}

\* asset_arch_mapping[key] if it is a list, else [asset_arch_mapping[key]]
MappedArchitectures(mapping, key) ==
  IF mapping[key].type = "list" THEN mapping[key].l ELSE <<mapping[key].s>>

\* InitArchitectures that adds the alias tokens to the built-in tokens
\* instead of replacing them
InitArchitectures_Extend(m, mapping) ==
  LET canon == CanonicalArchitectures(m)
      keys  == SeqToSet(canon) \cap DOMAIN mapping
  IN IF keys = {} THEN {canon}
     ELSE {canon \o MappedArchitectures(mapping, k) : k \in keys}

\* The values self.architectures can take.  list(set(..).intersection(..))[0]
\* takes the first element of a set in iteration order, which depends on the
\* hash seed: any element of the intersection.
InitArchitectures(m, mapping) ==
  LET canon == CanonicalArchitectures(m)
      keys  == SeqToSet(canon) \cap DOMAIN mapping
  IN IF keys = {} THEN {canon}
     ELSE {MappedArchitectures(mapping, k) : k \in keys}

\* asset_matches_system
asset_matches_system(sys, asset) == Contains(Lower(asset.name), sys)

\* the character class of (?:\W|_)
Boundary(c) == c \notin AlnumChars

\* re.search of (?:^|\W|_)<token>(?:$|\W|_), attempted at offset p of name
MatchTokenAt(name, p, token) ==
  LET n == Len(token)
      rest(q) ==
        /\ q + n <= Len(name)
        /\ SubSeq(name, q + 1, q + n) = token
        /\ \/ q + n = Len(name)
           \/ Boundary(name[q + n + 1])
  IN \/ p = 0 /\ rest(0)
     \/ p < Len(name) /\ Boundary(name[p + 1]) /\ rest(p + 1)

\* asset_matches_architecture as a plain substring test
asset_matches_architecture_Substring(archs, asset) ==
  \E a \in 1..Len(archs) : Contains(Lower(asset.name), archs[a])

asset_matches_architecture(archs, asset) ==
  \E a \in 1..Len(archs) :
    \E p \in 0..Len(asset.name) : MatchTokenAt(Lower(asset.name), p, archs[a])

Names(list) == [i \in 1..Len(list) |-> list[i].name]

Returned(asset, f1, f2, f3, stage) ==
  [kind |-> "asset", name |-> asset.name, stage |-> stage, count |-> 1,
   after_regex |-> Names(f1), after_arch |-> Names(f2), after_system |-> Names(f3)]

Failed(f1, f2, f3, stage, n) ==
  [kind |-> "fail", name |-> <<>>, stage |-> stage, count |-> n,
   after_regex |-> Names(f1), after_arch |-> Names(f2), after_system |-> Names(f3)]

NoSelection ==
  [kind |-> "none", name |-> <<>>, stage |-> "", count |-> 0,
   after_regex |-> <<>>, after_arch |-> <<>>, after_system |-> <<>>]

\* select_asset that narrows by system before architecture
select_asset_SystemFirst(list, regex, archs, sys) ==
  LET f1 == SelectSeq(list, LAMBDA a : FullMatch(regex, a.name))
      f2 == SelectSeq(f1, LAMBDA a : asset_matches_system(sys, a))
      f3 == SelectSeq(f2, LAMBDA a : asset_matches_architecture(archs, a))
  IN IF Len(f1) = 0 THEN Failed(f1, <<>>, <<>>, "pattern", 0)
     ELSE IF Len(f1) = 1 THEN Returned(list[1], f1, <<>>, <<>>, "pattern")
     ELSE IF Len(f2) = 0 THEN Failed(f1, f2, <<>>, "system", 0)
     ELSE IF Len(f2) = 1 THEN Returned(f2[1], f1, f2, <<>>, "system")
     ELSE IF Len(f3) = 0 THEN Failed(f1, f2, f3, "arch", 0)
     ELSE IF Len(f3) = 1 THEN Returned(f3[1], f1, f2, f3, "arch")
     ELSE Failed(f1, f2, f3, "count", Len(f3))

\* AssetSelector.select_asset
select_asset(list, regex, archs, sys) ==
  LET f1 == SelectSeq(list, LAMBDA a : FullMatch(regex, a.name))
      f2 == SelectSeq(f1, LAMBDA a : asset_matches_architecture(archs, a))
      f3 == SelectSeq(f2, LAMBDA a : asset_matches_system(sys, a))
  IN IF Len(f1) = 0 THEN Failed(f1, <<>>, <<>>, "pattern", 0)
     ELSE IF Len(f1) = 1 THEN Returned(list[1], f1, <<>>, <<>>, "pattern")
     ELSE IF Len(f2) = 0 THEN Failed(f1, f2, <<>>, "arch", 0)
     ELSE IF Len(f2) = 1 THEN Returned(f2[1], f1, f2, <<>>, "arch")
     ELSE IF Len(f3) = 0 THEN Failed(f1, f2, f3, "system", 0)
     ELSE IF Len(f3) = 1 THEN Returned(f3[1], f1, f2, f3, "system")
     ELSE Failed(f1, f2, f3, "count", Len(f3))

\* ------------------------------------------------------------------------
\* Filesystem.  A path is the sequence of its components, <<>> is "/".
\* ------------------------------------------------------------------------
Dir == [kind |-> "dir", content |-> "", mtime |-> 0]
File(c, t) == [kind |-> "file", content |-> c, mtime |-> t]

\* st_size of a file
Size(node) == IF node.content = "cc" THEN 2 ELSE IF node.content = "" THEN 0 ELSE 1

Exists(f, p) == p = <<>> \/ p \in DOMAIN f          \* os.path.exists
IsDir(f, p)  == p = <<>> \/ (p \in DOMAIN f /\ f[p].kind = "dir")    \* os.path.isdir
IsFile(f, p) == p \in DOMAIN f /\ f[p].kind = "file"                 \* os.path.isfile

basename(p) == p[Len(p)]                      \* os.path.basename
dirname(p)  == SubSeq(p, 1, Len(p) - 1)       \* os.path.dirname
join(d, n)  == Append(d, n)                   \* os.path.join

IsPrefix(a, p) == Len(a) <= Len(p) /\ SubSeq(p, 1, Len(a)) = a
Under(f, a)    == {p \in DOMAIN f : IsPrefix(a, p)}

\* filecmp.cmp(path1, path2), shallow=True by default: files with the same
\* (type, size, mtime) signature are taken to be equal without being read
filecmp_cmp(f, p1, p2) ==
  IF Size(f[p1]) = Size(f[p2]) /\ f[p1].mtime = f[p2].mtime THEN TRUE
  ELSE IF Size(f[p1]) # Size(f[p2]) THEN FALSE
  ELSE f[p1].content = f[p2].content

\* files_have_same_content: [raised, same]
files_have_same_content(f, p1, p2) ==
  IF ~IsFile(f, p1) \/ ~IsFile(f, p2)
    THEN [raised |-> TRUE, same |-> FALSE]
    ELSE [raised |-> FALSE, same |-> filecmp_cmp(f, p1, p2)]

\* os.rename(src, dst), with the copy-and-delete fallback of shutil.move:
\* src and everything under it now lives at dst
Rename(f, src, dst) ==
  LET gone == Under(f, src) \cup Under(f, dst)
      new  == {dst \o Drop(p, Len(src)) : p \in Under(f, src)}
  IN [p \in (DOMAIN f \ gone) \cup new |->
        IF IsPrefix(dst, p) THEN f[src \o Drop(p, Len(dst))] ELSE f[p]]

\* shutil.move(src, dst): [ok, fs]
shutil_move(f, src, dst) ==
  LET real_dst == IF IsDir(f, dst) THEN join(dst, basename(src)) ELSE dst IN
  IF ~Exists(f, src) THEN [ok |-> FALSE, fs |-> f]
  ELSE IF IsDir(f, dst) /\ Exists(f, real_dst) THEN [ok |-> FALSE, fs |-> f]
  ELSE IF ~IsDir(f, dirname(real_dst)) THEN [ok |-> FALSE, fs |-> f]
  ELSE IF Exists(f, real_dst) /\ IsDir(f, src) THEN [ok |-> FALSE, fs |-> f]
  ELSE [ok |-> TRUE, fs |-> Rename(f, src, real_dst)]

\* ------------------------------------------------------------------------
\* move_paths.  The state of a call: the filesystem, the local changed, the
\* sources moved so far, and whether (and why) the call has failed.
\* ------------------------------------------------------------------------
Entry(dest, path_list) == [dest |-> dest, path_list |-> path_list]

CallState(f) == [fs |-> f, changed |-> FALSE, moved |-> {}, ok |-> TRUE, err |-> ""]

Fail(st, msg) == [st EXCEPT !.ok = FALSE, !.err = msg]

\* lines 236-239: move every source of the list into the directory dest
RECURSIVE MoveInto(_, _, _)
MoveInto(st, dest, path_list) ==
  IF path_list = <<>> \/ ~st.ok THEN st
  ELSE LET abs_path == Head(path_list)
           r == shutil_move(st.fs, abs_path, join(dest, basename(abs_path)))
       IN IF ~r.ok THEN Fail(st, "shutil.Error")
          ELSE MoveInto([st EXCEPT !.fs = r.fs, !.moved = @ \cup {abs_path}],
                        dest, Tail(path_list))

\* DirectoryDest without "changed = True" (line 240)
DirectoryDest_NoChanged(st, e, validate_only) ==
  IF \E i \in 1..Len(e.path_list) :
       /\ IsDir(st.fs, e.path_list[i])
       /\ Exists(st.fs, join(e.dest, basename(e.path_list[i])))
    THEN Fail(st, "Destination path already exists.")
  ELSE IF validate_only THEN st
  ELSE MoveInto(st, e.dest, e.path_list)

\* lines 228-240: dest is a directory
DirectoryDest(st, e, validate_only) ==
  IF \E i \in 1..Len(e.path_list) :
       /\ IsDir(st.fs, e.path_list[i])
       /\ Exists(st.fs, join(e.dest, basename(e.path_list[i])))
    THEN Fail(st, "Destination path already exists.")
  ELSE IF validate_only THEN st
  ELSE LET m == MoveInto(st, e.dest, e.path_list)
       IN IF m.ok THEN [m EXCEPT !.changed = TRUE] ELSE m

\* FileDest without the check of line 242 for several sources
FileDest_NoMultipleCheck(st, e, validate_only) ==
  LET abs_path == e.path_list[1] IN
  IF ~Exists(st.fs, e.dest)
    THEN IF ~Exists(st.fs, dirname(e.dest)) THEN Fail(st, "Directory does not exist.")
         ELSE IF validate_only THEN st
         ELSE LET r == shutil_move(st.fs, abs_path, e.dest)
              IN IF ~r.ok THEN Fail(st, "shutil.Error")
                 ELSE [st EXCEPT !.fs = r.fs, !.moved = @ \cup {abs_path}, !.changed = TRUE]
    ELSE IF IsDir(st.fs, abs_path) THEN Fail(st, "File exists.")
         ELSE IF validate_only THEN st
         ELSE LET c == files_have_same_content(st.fs, abs_path, e.dest)
                  r == shutil_move(st.fs, abs_path, e.dest)
              IN IF c.raised THEN Fail(st, "Exception")
                 ELSE IF ~r.ok THEN Fail(st, "shutil.Error")
                 ELSE [st EXCEPT !.fs = r.fs, !.moved = @ \cup {abs_path},
                                 !.changed = @ \/ ~c.same]

\* lines 241-259: dest is not a directory
FileDest(st, e, validate_only) ==
  LET abs_path == e.path_list[1] IN
  IF Len(e.path_list) > 1 THEN Fail(st, "Can't move multiple files/dirs.")
  ELSE IF ~Exists(st.fs, e.dest)
    THEN IF ~Exists(st.fs, dirname(e.dest)) THEN Fail(st, "Directory does not exist.")
         ELSE IF validate_only THEN st
         ELSE LET r == shutil_move(st.fs, abs_path, e.dest)
              IN IF ~r.ok THEN Fail(st, "shutil.Error")
                 ELSE [st EXCEPT !.fs = r.fs, !.moved = @ \cup {abs_path}, !.changed = TRUE]
    ELSE IF IsDir(st.fs, abs_path) THEN Fail(st, "File exists.")
         ELSE IF validate_only THEN st
         ELSE LET c == files_have_same_content(st.fs, abs_path, e.dest)
                  r == shutil_move(st.fs, abs_path, e.dest)
              IN IF c.raised THEN Fail(st, "Exception")
                 ELSE IF ~r.ok THEN Fail(st, "shutil.Error")
                 ELSE [st EXCEPT !.fs = r.fs, !.moved = @ \cup {abs_path},
                                 !.changed = @ \/ ~c.same]

\* one iteration of the loop of line 227
MoveEntry(st, e, validate_only) ==
  IF IsDir(st.fs, e.dest) THEN DirectoryDest(st, e, validate_only)
  ELSE FileDest(st, e, validate_only)

\* the loop of line 227 from entry i on; fail_json and exceptions end it
RECURSIVE MoveLoop(_, _, _, _)
MoveLoop(st, ptm, i, validate_only) ==
  IF i > Len(ptm) \/ ~st.ok THEN st
  ELSE MoveLoop(MoveEntry(st, ptm[i], validate_only), ptm, i + 1, validate_only)

\* move_paths(module, paths_to_move): validate, then move
move_paths(f, ptm) ==
  LET v == MoveLoop(CallState(f), ptm, 1, TRUE)
  IN IF ~v.ok THEN v ELSE MoveLoop(CallState(f), ptm, 1, FALSE)

\* ------------------------------------------------------------------------
\* Filesystems and pending move sets move_paths is called with
\* ------------------------------------------------------------------------
extract_dir == <<"t">>
SourceNames == <<"f", "g", "h">>
Sources == {join(extract_dir, SourceNames[i]) : i \in 1..MaxSources}

\* an extracted entry: a file, or a directory holding one file
SourceFiles == {File("a", 1), File("b", 1)}
SourceKinds == SourceFiles \cup {Dir}

DestRoot == <<"d">>
D_f  == <<"d", "f">>
D_ff == <<"d", "f", "f">>
Dests == {DestRoot, D_f, D_ff}

\* what is installed at d/f: nothing, a file, an empty directory, or a
\* directory that holds a file f
DestFiles == {File("a", 1), File("a", 2), File("cc", 1)}
DestShapes == {[at |-> "absent", node |-> Dir]} \cup
              {[at |-> "file", node |-> n] : n \in DestFiles} \cup
              {[at |-> "dir", node |-> Dir], [at |-> "dirfile", node |-> Dir]}

Filesystem(kinds, shape) ==
  LET srcDom == Sources \cup {join(s, "f") : s \in {x \in Sources : kinds[x] = Dir}}
      dstDom == CASE shape.at = "absent" -> {}
                  [] shape.at \in {"file", "dir"} -> {D_f}
                  [] OTHER -> {D_f, D_ff}
  IN [p \in {extract_dir, DestRoot} \cup srcDom \cup dstDom |->
        IF p \in {extract_dir, DestRoot} THEN Dir
        ELSE IF p \in Sources THEN kinds[p]
        ELSE IF p = D_f THEN shape.node
        ELSE File("a", 1)]

Filesystems == {Filesystem(k, s) : k \in [Sources -> SourceKinds], s \in DestShapes}

\* paths_to_move[dst].append(abs_path) on a defaultdict(list)
DictAppend(ptm, dst, abs_path) ==
  IF \E i \in 1..Len(ptm) : ptm[i].dest = dst
    THEN [i \in 1..Len(ptm) |->
            IF ptm[i].dest = dst
              THEN Entry(dst, Append(ptm[i].path_list, abs_path))
              ELSE ptm[i]]
    ELSE Append(ptm, Entry(dst, <<abs_path>>))

\* the dict built by appending the sources of q in order, each to its dst
RECURSIVE BuildDict(_, _)
BuildDict(q, dstOf) ==
  IF q = <<>> THEN <<>>
  ELSE DictAppend(BuildDict(SubSeq(q, 1, Len(q) - 1), dstOf),
                  dstOf[q[Len(q)]], q[Len(q)])

\* os.walk lists the entries of one directory in any order, and line 293
\* visits the directories before the files
WalkOrders(f) ==
  {q \in UNION {DistinctSeqs(Sources, n) : n \in 0..MaxSources} :
     \A i, j \in 1..Len(q) : (IsFile(f, q[i]) /\ IsDir(f, q[j])) => j < i}

PendingMoveSets(f) ==
  UNION {{BuildDict(q, dstOf) : dstOf \in [SeqToSet(q) -> Dests]} : q \in WalkOrders(f)}

AllSources(ptm) == UNION {SeqToSet(ptm[i].path_list) : i \in 1..Len(ptm)}

\* ------------------------------------------------------------------------
\* Installed-version check
\* ------------------------------------------------------------------------
Whitespace == {" ", "\n", "\t"}

\* str.strip()
RECURSIVE LStrip(_)
LStrip(x) == IF x # <<>> /\ Head(x) \in Whitespace THEN LStrip(Tail(x)) ELSE x
RECURSIVE RStrip(_)
RStrip(x) ==
  IF x # <<>> /\ x[Len(x)] \in Whitespace THEN RStrip(SubSeq(x, 1, Len(x) - 1)) ELSE x
Strip(x) == LStrip(RStrip(x))

\* the index after the run of digits of x that starts at i (i if there is none)
RECURSIVE DigitsEnd(_, _)
DigitsEnd(x, i) == IF i <= Len(x) /\ x[i] \in DigitChars THEN DigitsEnd(x, i + 1) ELSE i

\* the index after the match of \d+\.\d+(?:\.\d+)? that starts at i, 0 if none
VersionEndAt(x, i) ==
  LET a == DigitsEnd(x, i)
      b == DigitsEnd(x, a + 1)
      c == DigitsEnd(x, b + 1)
  IN IF a = i \/ a > Len(x) \/ x[a] # "." \/ b = a + 1 THEN 0
     ELSE IF b <= Len(x) /\ x[b] = "." /\ c > b + 1 THEN c
     ELSE b

NoVersion == <<"None">>

\* extract_version(s, version_regex) with the default version_regex of line 424
extract_version(x) ==
  LET starts == {i \in 1..Len(x) : VersionEndAt(x, i) # 0}
      first  == CHOOSE i \in starts : \A j \in starts : i <= j
  IN IF starts = {} THEN NoVersion ELSE SubSeq(x, first, VersionEndAt(x, first) - 1)

\* is_download_required with the comparisons of lines 183 and 203 inverted
is_download_required_Inverted(vcommand, vfile, vcontent, pr, tag) ==
  IF vfile # ""
    THEN IF ~vcontent.exists THEN "yes"
         ELSE IF Strip(vcontent.content) = tag THEN "yes" ELSE "no"
  ELSE IF vcommand = "" THEN "yes"
  ELSE IF pr.kind = "oserror" THEN "yes"
  ELSE LET version_installed  == extract_version(Strip(pr.stdout))
           version_to_install == extract_version(tag)
       IN IF version_installed = NoVersion THEN "fatal"
          ELSE IF version_to_install = NoVersion THEN "fatal"
          ELSE IF version_installed = version_to_install THEN "yes" ELSE "no"

\* is_download_required that does not catch the OSError of run_command
is_download_required_NoCatch(vcommand, vfile, vcontent, pr, tag) ==
  IF vfile # ""
    THEN IF ~vcontent.exists THEN "yes"
         ELSE IF Strip(vcontent.content) # tag THEN "yes" ELSE "no"
  ELSE IF vcommand = "" THEN "yes"
  ELSE IF pr.kind = "oserror" THEN "fatal"
  ELSE LET version_installed  == extract_version(Strip(pr.stdout))
           version_to_install == extract_version(tag)
       IN IF version_installed = NoVersion THEN "fatal"
          ELSE IF version_to_install = NoVersion THEN "fatal"
          ELSE IF version_installed # version_to_install THEN "yes" ELSE "no"

\* is_download_required: "yes" (True), "no" (False) or "fatal" (fail_json)
is_download_required(vcommand, vfile, vcontent, pr, tag) ==
  IF vfile # ""
    THEN IF ~vcontent.exists THEN "yes"
         ELSE IF Strip(vcontent.content) # tag THEN "yes" ELSE "no"
  ELSE IF vcommand = "" THEN "yes"
  ELSE IF pr.kind = "oserror" THEN "yes"
  ELSE LET version_installed  == extract_version(Strip(pr.stdout))
           version_to_install == extract_version(tag)
       IN IF version_installed = NoVersion THEN "fatal"
          ELSE IF version_to_install = NoVersion THEN "fatal"
          ELSE IF version_installed # version_to_install THEN "yes" ELSE "no"

\* ------------------------------------------------------------------------
\* download_asset: classification of the extracted tree
\* ------------------------------------------------------------------------
\* os.path.relpath(abs_path, extract_dir), as a string
RECURSIVE SlashJoin(_)
SlashJoin(p) ==
  IF Len(p) = 0 THEN <<>>
  ELSE IF Len(p) = 1 THEN <<p[1]>>
  ELSE <<p[1], "/">> \o SlashJoin(Tail(p))
relpath(abs_path) == SlashJoin(Drop(abs_path, Len(extract_dir)))

\* the entries of directory root, in the order os.walk lists them: order
\* ranks the names
Position(order, n) == CHOOSE i \in 1..Len(order) : order[i] = n
Listing(f, root, order) ==
  LET kids == {p \in DOMAIN f : Len(p) = Len(root) + 1 /\ IsPrefix(root, p)}
  IN SelectSeq([i \in 1..Len(order) |-> join(root, order[i])], LAMBDA p : p \in kids)

RECURSIVE Walk(_, _, _)
RECURSIVE WalkEach(_, _, _)
\* lines 292-294: the items visited, a directory's dirs + files before the
\* items of its subdirectories
Walk(f, root, order) ==
  LET l     == Listing(f, root, order)
      dirs  == SelectSeq(l, LAMBDA p : IsDir(f, p))
      files == SelectSeq(l, LAMBDA p : ~IsDir(f, p))
  IN dirs \o files \o WalkEach(f, dirs, order)
WalkEach(f, dirs, order) ==
  IF dirs = <<>> THEN <<>>
  ELSE Walk(f, Head(dirs), order) \o WalkEach(f, Tail(dirs), order)

\* the index of the first rule whose src_regex matches the whole relative
\* path, 0 if none does
FirstRule(rules, abs_path) ==
  LET hits == {i \in 1..Len(rules) : FullMatch(rules[i]["src_regex"], relpath(abs_path))}
  IN IF hits = {} THEN 0 ELSE CHOOSE i \in hits : \A j \in hits : i <= j

\* lines 294-308 without the already_included test of lines 295-301
ClassifyItem_NoAncestorCheck(ptm, rules, abs_path) ==
  LET r == FirstRule(rules, abs_path)
  IN IF r = 0 THEN ptm ELSE DictAppend(ptm, rules[r]["dst"], abs_path)

\* lines 294-308 for one item
ClassifyItem(ptm, rules, abs_path) ==
  LET already_included ==
        \E i \in 1..Len(ptm) : \E k \in 1..Len(ptm[i].path_list) :
          IsPrefix(ptm[i].path_list[k], abs_path)
      r == FirstRule(rules, abs_path)
  IN IF already_included \/ r = 0 THEN ptm
     ELSE DictAppend(ptm, rules[r]["dst"], abs_path)

RECURSIVE ClassifyAll(_, _, _)
ClassifyAll(ptm, rules, items) ==
  IF items = <<>> THEN ptm
  ELSE ClassifyAll(ClassifyItem(ptm, rules, Head(items)), rules, Tail(items))

\* lines 289-308: paths_to_move
Classify(f, rules, order) == ClassifyAll(<<>>, rules, Walk(f, extract_dir, order))

\* shutil.unpack_archive into extract_dir
Unpack(f, tree) == [p \in DOMAIN f \cup DOMAIN tree |-> IF p \in DOMAIN tree THEN tree[p] ELSE f[p]]

\* leaving "with tempfile.TemporaryDirectory()": the scratch tree is removed
Cleanup(f) == [p \in {q \in DOMAIN f : ~IsPrefix(extract_dir, q)} |-> f[p]]

\* ------------------------------------------------------------------------
\* Inputs of a run of main
\* ------------------------------------------------------------------------
T_v12 == <<"v","1",".","2">>
T_123 == <<"1",".","2",".","3">>
T_rel == <<"r","e","l">>
\* tag names are git ref names: they hold no whitespace
Tags == {T_v12, T_123, T_rel}

VersionFile(c) == [exists |-> TRUE, content |-> c]
NoVersionFile == [exists |-> FALSE, content |-> <<>>]
VersionFiles == {NoVersionFile, VersionFile(T_v12), VersionFile(T_v12 \o <<"\n">>),
                 VersionFile(T_123)}

O_tool12 == <<"t","o","o","l"," ","1",".","2","\n">>
O_123    == <<"1",".","2",".","3">>
Outputs  == {O_tool12, O_123, <<>>}

\* module.run_command: the command cannot be started (OSError), or it runs
\* and gives an exit status and an output
NotFound == [kind |-> "oserror", rc |-> 0, stdout |-> <<>>]
Probes == {NotFound} \cup {[kind |-> "ran", rc |-> c, stdout |-> o] : c \in {0, 1}, o \in Outputs}

Repo_ok  == <<"o","/","r">>
Repo_bad == <<"o","r">>
Repos == {Repo_ok, Repo_bad}

WordChars == AlnumChars \cup {"_"}
\* re.match(r"[\w\-_]+/[\w\-_]+", repo)
RepoMatches(r) ==
  \E i \in 2..(Len(r) - 1) :
    /\ r[i] = "/"
    /\ \A k \in 1..(i - 1) : r[k] \in WordChars \cup {"-"}
    /\ r[i + 1] \in WordChars \cup {"-"}

Rule(src, dst) == [k \in {"src_regex", "dst"} |-> IF k = "src_regex" THEN src ELSE dst]
RuleWithoutDst(src) == [k \in {"src_regex"} |-> src]

\* lines 438-443: the required arguments of every move rule
RulesComplete(rules) ==
  \A i \in 1..Len(rules) : {"src_regex", "dst"} \subseteq DOMAIN rules[i]

MoveRuleLists ==
  { <<Rule(<<".*">>, DestRoot)>>,
    <<Rule(<<"f">>, D_f), Rule(<<".*">>, DestRoot)>>,
    <<RuleWithoutDst(<<".*">>)>> }

\* the downloaded asset: what unpacking it puts under extract_dir
ArchiveKinds == {File("a", 1), Dir}
Archives ==
  {[p \in {q \in DOMAIN f : IsPrefix(extract_dir, q)} |-> f[p]] :
     f \in {Filesystem(k, [at |-> "absent", node |-> Dir]) : k \in [Sources -> ArchiveKinds]}}

\* the installed files before the first run
InstalledShapes == {[at |-> "absent", node |-> Dir], [at |-> "file", node |-> File("a", 1)]}
Installed ==
  {Cleanup(Filesystem([x \in Sources |-> Dir], sh)) : sh \in InstalledShapes}

\* the orders in which os.walk may list the names of a directory
WalkNameOrders == DistinctSeqs({SourceNames[i] : i \in 1..MaxSources}, MaxSources)

\* what main selects from: the release's assets, the pattern, the host
SelectionInputs ==
  { [assets |-> <<Asset(N_tool_64), Asset(N_tool_arm64)>>, regex |-> P_tool_zip,
     mapping |-> M_doc, machine |-> S_amd64, system |-> S_linux],
    [assets |-> <<Asset(N_armv7)>>, regex |-> P_tool_zip,
     mapping |-> M_empty, machine |-> S_arm64, system |-> S_linux] }

\* version_file and version_command are mutually exclusive (line 412)
VersionOptions ==
  {[file |-> "", command |-> "", content |-> NoVersionFile, probe |-> NotFound]} \cup
  {[file |-> "/d/version", command |-> "", content |-> c, probe |-> NotFound] : c \in VersionFiles} \cup
  {[file |-> "", command |-> "tool --version", content |-> NoVersionFile, probe |-> pr] : pr \in Probes}

MainIdle ==
  /\ repo = <<>> /\ move_rules = <<>> /\ archive = <<>> /\ tag_name = <<>>
  /\ version_file = "" /\ version_command = ""
  /\ version_file_content = NoVersionFile /\ content0 = NoVersionFile
  /\ probe = NotFound /\ pc = "idle" /\ verdict = "unknown"
  /\ exit = [kind |-> "running", changed |-> FALSE]
  /\ ops = {} /\ run = 0 /\ prev = [installed |-> FALSE, tag |-> <<>>]

MoveIdle ==
  /\ fs = <<>> /\ fs0 = <<>> /\ paths_to_move = <<>>
  /\ mpc = "idle" /\ idx = 0 /\ changed = FALSE /\ moved = {} /\ merr = ""

SelectIdle ==
  /\ assets = <<>> /\ asset_regex = <<>> /\ asset_arch_mapping = M_empty
  /\ machine = <<>> /\ system = <<>> /\ architectures = <<>>
  /\ selection = NoSelection /\ spc = "idle"

ClassifyIdle == walk = <<>> /\ cpc = "idle"

InitMove ==
  /\ fs \in Filesystems
  /\ fs0 = fs
  /\ paths_to_move \in PendingMoveSets(fs)
  /\ mpc = "start" /\ idx = 0 /\ changed = FALSE /\ moved = {} /\ merr = ""
  /\ SelectIdle
  /\ MainIdle
  /\ ClassifyIdle

\* line 225: the validating call move_paths(..., validate_only=True)
Validate ==
  /\ mpc = "start"
  /\ LET v == MoveLoop(CallState(fs), paths_to_move, 1, TRUE)
     IN IF v.ok THEN mpc' = "exec" /\ idx' = 1 /\ merr' = ""
        ELSE mpc' = "failed" /\ idx' = idx /\ merr' = v.err
  /\ UNCHANGED <<fs, fs0, paths_to_move, changed, moved>>
  /\ UNCHANGED selVars
  /\ UNCHANGED mainVars
  /\ UNCHANGED clsVars

\* lines 227-259 with validate_only=False: one destination of the loop
ExecuteEntry ==
  /\ mpc = "exec"
  /\ idx <= Len(paths_to_move)
  /\ LET st == [fs |-> fs, changed |-> changed, moved |-> moved, ok |-> TRUE, err |-> ""]
         r  == MoveEntry(st, paths_to_move[idx], FALSE)
     IN /\ fs' = r.fs
        /\ changed' = r.changed
        /\ moved' = r.moved
        /\ merr' = r.err
        /\ mpc' = IF r.ok THEN "exec" ELSE "failed"
        /\ idx' = IF r.ok THEN idx + 1 ELSE idx
  /\ UNCHANGED <<fs0, paths_to_move>>
  /\ UNCHANGED selVars
  /\ UNCHANGED mainVars
  /\ UNCHANGED clsVars

\* line 260: return changed
Return ==
  /\ mpc = "exec"
  /\ idx > Len(paths_to_move)
  /\ mpc' = "done"
  /\ UNCHANGED <<fs, fs0, paths_to_move, idx, changed, moved, merr>>
  /\ UNCHANGED selVars
  /\ UNCHANGED mainVars
  /\ UNCHANGED clsVars

NextMove == Validate \/ ExecuteEntry \/ Return

SpecMove == InitMove /\ [][NextMove]_vars

\* ------------------------------------------------------------------------
\* The selector on its own: every asset list, pattern, host and mapping
\* ------------------------------------------------------------------------
InitSelect ==
  /\ assets \in AssetLists
  /\ asset_regex \in Patterns
  /\ asset_arch_mapping \in ArchMappings
  /\ machine \in Machines
  /\ system \in Systems
  /\ architectures = <<>>
  /\ selection = NoSelection
  /\ spc = "new"
  /\ MoveIdle
  /\ MainIdle
  /\ ClassifyIdle

\* AssetSelector.__init__
Construct ==
  /\ spc = "new"
  /\ architectures' \in InitArchitectures(machine, asset_arch_mapping)
  /\ spc' = "constructed"
  /\ UNCHANGED <<assets, asset_regex, asset_arch_mapping, machine, system, selection>>
  /\ UNCHANGED mvVars
  /\ UNCHANGED mainVars
  /\ UNCHANGED clsVars

\* AssetSelector.select_asset
SelectAsset ==
  /\ spc = "constructed"
  /\ selection' = select_asset(assets, asset_regex, architectures, system)
  /\ spc' = "selected"
  /\ UNCHANGED <<assets, asset_regex, asset_arch_mapping, machine, system, architectures>>
  /\ UNCHANGED mvVars
  /\ UNCHANGED mainVars
  /\ UNCHANGED clsVars

NextSelect == Construct \/ SelectAsset

SpecSelect == InitSelect /\ [][NextSelect]_vars

\* ------------------------------------------------------------------------
\* main: runs of the module, one after another on the same host
\* ------------------------------------------------------------------------
Running == [kind |-> "running", changed |-> FALSE]
ExitJson(c) == [kind |-> "exit_json", changed |-> c]
FailJson == [kind |-> "fail_json", changed |-> FALSE]
Exception == [kind |-> "exception", changed |-> FALSE]

Init ==
  /\ repo \in Repos
  /\ move_rules \in MoveRuleLists
  /\ archive \in Archives
  /\ fs \in Installed
  /\ tag_name \in Tags
  /\ \E v \in VersionOptions :
       /\ version_file = v.file /\ version_command = v.command
       /\ version_file_content = v.content /\ content0 = v.content
       /\ probe = v.probe
  /\ \E i \in SelectionInputs :
       /\ assets = i.assets /\ asset_regex = i.regex /\ asset_arch_mapping = i.mapping
       /\ machine = i.machine /\ system = i.system
  /\ architectures = <<>> /\ selection = NoSelection /\ spc = "new"
  /\ fs0 = fs /\ paths_to_move = <<>>
  /\ mpc = "idle" /\ idx = 0 /\ changed = FALSE /\ moved = {} /\ merr = ""
  /\ pc = "start" /\ verdict = "unknown" /\ exit = Running
  /\ ops = {} /\ run = 1 /\ prev = [installed |-> FALSE, tag |-> <<>>]
  /\ ClassifyIdle

inputVars == <<repo, move_rules, archive, version_file, version_command,
               assets, asset_regex, asset_arch_mapping, machine, system>>

\* lines 419-460: the parameters are checked and the release is fetched
Start ==
  /\ UNCHANGED clsVars
  /\ pc = "start"
  /\ IF ~RepoMatches(repo) \/ ~RulesComplete(move_rules)
       THEN pc' = "exited" /\ exit' = FailJson
       ELSE \E fetched \in BOOLEAN :
              IF fetched THEN pc' = "check" /\ exit' = exit
              ELSE pc' = "exited" /\ exit' = Exception
  /\ UNCHANGED <<inputVars, tag_name, version_file_content, content0, probe,
                 verdict, ops, run, prev>>
  /\ UNCHANGED <<architectures, selection, spc>>
  /\ UNCHANGED mvVars

\* lines 462-465
CheckVersion ==
  /\ UNCHANGED clsVars
  /\ pc = "check"
  /\ verdict' = is_download_required(version_command, version_file,
                                     version_file_content, probe, tag_name)
  /\ IF verdict' = "yes" THEN pc' = "select" /\ exit' = exit
     ELSE IF verdict' = "no" THEN pc' = "exited" /\ exit' = ExitJson(FALSE)
     ELSE pc' = "exited" /\ exit' = FailJson
  /\ UNCHANGED <<inputVars, tag_name, version_file_content, content0, probe,
                 ops, run, prev>>
  /\ UNCHANGED <<architectures, selection, spc>>
  /\ UNCHANGED mvVars

\* lines 467-471
SelectForMain ==
  /\ UNCHANGED clsVars
  /\ pc = "select"
  /\ architectures' \in InitArchitectures(machine, asset_arch_mapping)
  /\ selection' = select_asset(assets, asset_regex, architectures', system)
  /\ spc' = "selected"
  /\ ops' = ops \cup {"select"}
  /\ IF selection'.kind = "asset" THEN pc' = "download" /\ exit' = exit
     ELSE pc' = "exited" /\ exit' = FailJson
  /\ UNCHANGED <<inputVars, tag_name, version_file_content, content0, probe,
                 verdict, run, prev>>
  /\ UNCHANGED mvVars

\* lines 473-475: download_asset
DownloadAsset ==
  /\ UNCHANGED clsVars
  /\ pc = "download"
  /\ \E downloaded \in BOOLEAN :
       IF ~downloaded
         THEN /\ pc' = "exited" /\ exit' = Exception
              /\ ops' = ops \cup {"download"}
              /\ UNCHANGED mvVars
         ELSE \E order \in WalkNameOrders :
                LET unpacked == Unpack(fs, archive)
                    ptm == Classify(unpacked, move_rules, order)
                    r   == move_paths(unpacked, ptm)
                IN /\ fs0' = unpacked
                   /\ paths_to_move' = ptm
                   /\ fs' = Cleanup(r.fs)
                   /\ changed' = r.changed
                   /\ moved' = r.moved
                   /\ merr' = r.err
                   /\ mpc' = IF r.ok THEN "done" ELSE "failed"
                   /\ idx' = idx
                   /\ ops' = ops \cup {"download"} \cup (IF r.moved = {} THEN {} ELSE {"move"})
                   /\ IF r.ok THEN pc' = "write" /\ exit' = exit
                      ELSE pc' = "exited"
                           /\ exit' = IF r.err = "shutil.Error" THEN Exception ELSE FailJson
  /\ UNCHANGED <<inputVars, tag_name, version_file_content, content0, probe,
                 verdict, run, prev>>
  /\ UNCHANGED <<architectures, selection, spc>>

\* lines 477-481
WriteVersionFile ==
  /\ UNCHANGED clsVars
  /\ pc = "write"
  /\ IF version_file # ""
       THEN version_file_content' = VersionFile(tag_name) /\ ops' = ops \cup {"write"}
       ELSE version_file_content' = version_file_content /\ ops' = ops
  /\ pc' = "exited"
  /\ exit' = ExitJson(changed)
  /\ UNCHANGED <<inputVars, tag_name, content0, probe, verdict, run, prev>>
  /\ UNCHANGED <<architectures, selection, spc>>
  /\ UNCHANGED mvVars

\* the module is run again with the same parameters; the repository's
\* release is the same or another one
NewRun ==
  /\ UNCHANGED clsVars
  /\ pc = "exited"
  /\ run < MaxRuns
  /\ run' = run + 1
  /\ prev' = [installed |-> (exit.kind = "exit_json" /\ "download" \in ops), tag |-> tag_name]
  /\ tag_name' \in Tags
  /\ content0' = version_file_content
  /\ pc' = "start" /\ verdict' = "unknown" /\ exit' = Running /\ ops' = {}
  /\ architectures' = <<>> /\ selection' = NoSelection /\ spc' = "new"
  /\ fs0' = fs /\ paths_to_move' = <<>>
  /\ mpc' = "idle" /\ idx' = 0 /\ changed' = FALSE /\ moved' = {} /\ merr' = ""
  /\ UNCHANGED <<inputVars, fs, version_file_content, probe>>

Next == Start \/ CheckVersion \/ SelectForMain \/ DownloadAsset \/ WriteVersionFile \/ NewRun

Spec == Init /\ [][Next]_vars

\* ------------------------------------------------------------------------
\* The classifying loop of download_asset on its own: every extracted tree,
\* listing order and ordered rule list
\* ------------------------------------------------------------------------
\* what the archive holds at a top-level name: nothing, a file, a directory
\* holding the file f, or a directory holding f and a directory g holding f
TreeShapes == {"absent", "file", "dir", "deep"}

ExtractedTree(shapes) ==
  LET tops  == {x \in Sources : shapes[x] # "absent"}
      dirs  == {x \in Sources : shapes[x] \in {"dir", "deep"}}
      deeps == {x \in Sources : shapes[x] = "deep"}
      inner == {join(x, "g") : x \in deeps}
  IN [p \in {extract_dir} \cup tops \cup {join(x, "f") : x \in dirs}
              \cup inner \cup {join(x, "f") : x \in inner} |->
        IF p \in {extract_dir} \cup dirs \cup inner THEN Dir ELSE File("a", 1)]

ExtractedTrees == {ExtractedTree(sh) : sh \in [Sources -> TreeShapes]}

\* src_regex values: g, g/f, g/.* and .*
ClassifyPatterns == {<<"g">>, <<"g", "/", "f">>, <<"g", "/", ".*">>, <<".*">>}

ClassifyRules == {Rule(src, dst) : src \in ClassifyPatterns, dst \in {DestRoot, D_f}}

\* move_rules: no rule, one rule, or two different rules in either order
ClassifyRuleLists ==
  {<<>>} \cup {<<r>> : r \in ClassifyRules}
         \cup {q \in {<<r1, r2>> : r1 \in ClassifyRules, r2 \in ClassifyRules} : q[1] # q[2]}

InitClassify ==
  /\ fs \in ExtractedTrees
  /\ fs0 = fs
  /\ move_rules \in ClassifyRuleLists
  /\ \E order \in WalkNameOrders : walk = Walk(fs, extract_dir, order)
  /\ paths_to_move = <<>>
  /\ cpc = "walking"
  /\ mpc = "idle" /\ idx = 0 /\ changed = FALSE /\ moved = {} /\ merr = ""
  /\ SelectIdle
  /\ repo = <<>> /\ archive = <<>> /\ tag_name = <<>>
  /\ version_file = "" /\ version_command = ""
  /\ version_file_content = NoVersionFile /\ content0 = NoVersionFile
  /\ probe = NotFound /\ pc = "idle" /\ verdict = "unknown"
  /\ exit = [kind |-> "running", changed |-> FALSE]
  /\ ops = {} /\ run = 0 /\ prev = [installed |-> FALSE, tag |-> <<>>]

clsInputs == <<fs, fs0, mpc, idx, changed, moved, merr, repo, move_rules, archive,
               tag_name, version_file, version_command, version_file_content,
               content0, probe, pc, verdict, exit, ops, run, prev>>

\* lines 293-308: the body of the loop for the next item of the walk
ClassifyNext ==
  /\ cpc = "walking"
  /\ walk # <<>>
  /\ paths_to_move' = ClassifyItem(paths_to_move, move_rules, Head(walk))
  /\ walk' = Tail(walk)
  /\ UNCHANGED cpc
  /\ UNCHANGED clsInputs
  /\ UNCHANGED selVars

\* line 292: os.walk is exhausted
ClassifyEnd ==
  /\ cpc = "walking"
  /\ walk = <<>>
  /\ cpc' = "classified"
  /\ UNCHANGED <<walk, paths_to_move>>
  /\ UNCHANGED clsInputs
  /\ UNCHANGED selVars

NextClassify == ClassifyNext \/ ClassifyEnd

SpecClassify == InitClassify /\ [][NextClassify]_vars

\* ------------------------------------------------------------------------
\* Properties of move_paths, stated for SpecMove
\* ------------------------------------------------------------------------
Entries == {paths_to_move[i] : i \in 1..Len(paths_to_move)}

\* what a path holds, as an installed result: nothing, a directory, or bytes
Holds(f, p) ==
  IF ~Exists(f, p) THEN "absent" ELSE IF IsDir(f, p) THEN "dir" ELSE f[p].content

DestPaths(f) == {p \in DOMAIN f : IsPrefix(DestRoot, p)}

\* C1: a call of move_paths performs every move of the pending move set or
\* none of them; when it fails, no source has been moved to any destination.
C1_AllOrNothing ==
  /\ mpc = "failed" => (moved = {} /\ fs = fs0)
  /\ mpc = "done" => moved = AllSources(paths_to_move)

\* the conflicts of the pending move set on the filesystem f
ConflictSameNamedDir(f, e) ==
  /\ IsDir(f, e.dest)
  /\ \E p \in SeqToSet(e.path_list) : IsDir(f, p) /\ Exists(f, join(e.dest, basename(p)))
ConflictMultipleSources(f, e) == ~IsDir(f, e.dest) /\ Len(e.path_list) > 1
ConflictDirOntoFile(f, e) ==
  IsFile(f, e.dest) /\ \E p \in SeqToSet(e.path_list) : IsDir(f, p)
ConflictNoParent(f, e) == ~Exists(f, e.dest) /\ ~Exists(f, dirname(e.dest))
Conflict(f, e) ==
  \/ ConflictSameNamedDir(f, e) \/ ConflictMultipleSources(f, e)
  \/ ConflictDirOntoFile(f, e) \/ ConflictNoParent(f, e)

\* C2: if any conflict holds on the filesystem as it is before execution,
\* move_paths fails and no assignment of the batch is executed: the whole
\* filesystem, every other destination included, is as it was.
C2_ConflictMovesNothing ==
  (mpc # "start" /\ \E e \in Entries : Conflict(fs0, e))
     => (mpc = "failed" /\ moved = {} /\ fs = fs0)

\* C2 witness: the call failed on a same-named directory inside an existing
\* destination directory, while another destination of the batch has no
\* conflict of its own.
C2_Witness ==
  /\ mpc = "failed"
  /\ \E e \in Entries : ConflictSameNamedDir(fs0, e)
  /\ \E e \in Entries : ~Conflict(fs0, e)

\* C4 as stated: the verdict of a successful call is true exactly when some
\* destination's content differs from what was present before, or a new
\* destination path exists.
C4_ChangedIffContentDiffers ==
  mpc = "done" =>
    (changed <=> \E p \in DestPaths(fs) \cup DestPaths(fs0) : Holds(fs, p) # Holds(fs0, p))

\* the verdict of files_have_same_content, stated on the two files' stat
\* signatures and bytes
JudgedSame(f, p1, p2) ==
  \/ (Size(f[p1]) = Size(f[p2]) /\ f[p1].mtime = f[p2].mtime)
  \/ f[p1].content = f[p2].content

\* C4 as amended: the verdict of a successful call is true exactly when some
\* destination was an existing directory before the call, or did not exist,
\* or was an existing file that files_have_same_content judges different
\* from its source.
C4_ChangedIffDirNewOrJudgedDifferent ==
  mpc = "done" =>
    (changed <=> \E e \in Entries :
                   \/ IsDir(fs0, e.dest)
                   \/ ~Exists(fs0, e.dest)
                   \/ ~JudgedSame(fs0, e.path_list[1], e.dest))

\* C4 witness: a successful call that moved a file into an existing
\* directory over a file with the same bytes, and reports changed.
C4_Witness ==
  /\ mpc = "done" /\ changed
  /\ Len(paths_to_move) = 1
  /\ paths_to_move[1].dest = DestRoot
  /\ \A p \in DestPaths(fs) \cup DestPaths(fs0) : Holds(fs, p) = Holds(fs0, p)

\* C5: a single file source moved onto an existing destination file gives
\* changed = FALSE if the bytes are identical, changed = TRUE if they differ,
\* and the destination then holds the source's bytes.
C5_SingleFileOntoFile ==
  (/\ mpc = "done"
   /\ Len(paths_to_move) = 1
   /\ Len(paths_to_move[1].path_list) = 1
   /\ IsFile(fs0, paths_to_move[1].dest)
   /\ IsFile(fs0, paths_to_move[1].path_list[1]))
  => LET dest == paths_to_move[1].dest
         src  == paths_to_move[1].path_list[1]
     IN /\ changed = (fs0[src].content # fs0[dest].content)
        /\ IsFile(fs, dest)
        /\ fs[dest].content = fs0[src].content

\* ------------------------------------------------------------------------
\* Properties of the asset selector, stated for SpecSelect
\* ------------------------------------------------------------------------
\* the indices of the assets whose whole name matches the pattern
Matching == {i \in 1..Len(assets) : FullMatch(asset_regex, assets[i].name)}

\* C3: if exactly one asset's name fully matches the pattern, select_asset
\* returns that asset, wherever it is in the list.
C3_SingleMatchIsReturned ==
  (spc = "selected" /\ Cardinality(Matching) = 1)
    => (selection.kind = "asset" /\ \A i \in Matching : selection.name = assets[i].name)

\* token occurs in name with, on each side, the start or end of the name or
\* a character that is neither a letter nor a digit
Delimited(name, token) ==
  \E i \in 1..(Len(name) - Len(token) + 1) :
    /\ \A k \in 1..Len(token) : name[i + k - 1] = token[k]
    /\ i = 1 \/ name[i - 1] \notin AlnumChars
    /\ i + Len(token) - 1 = Len(name) \/ name[i + Len(token)] \notin AlnumChars

HasArchToken(name) == \E t \in SeqToSet(architectures) : Delimited(Lower(name), t)

\* the alias value as a set: a single string is a one-element set
AliasValueSet(v) == IF v.type = "str" THEN {v.s} ELSE SeqToSet(v.l)

MappedKeys == SeqToSet(CanonicalArchitectures(machine)) \cap DOMAIN asset_arch_mapping

ArchStageReached == spc = "selected" /\ Len(selection.after_regex) > 1

\* C7: when a canonical token of the host architecture is a key of the
\* alias mapping, the acceptable tokens are that alias's value set, and
\* architecture narrowing uses only them; with {"amd64": "64"} on an amd64
\* host, tool-64.zip is selected over tool-arm64.zip.
C7_AliasReplacesTokens ==
  /\ (spc # "new" /\ MappedKeys # {})
       => \E k \in MappedKeys : SeqToSet(architectures) = AliasValueSet(asset_arch_mapping[k])
  /\ (ArchStageReached /\ MappedKeys # {})
       => \E k \in MappedKeys :
            \A n \in SeqToSet(selection.after_regex) :
              n \in SeqToSet(selection.after_arch)
                <=> \E t \in AliasValueSet(asset_arch_mapping[k]) : Delimited(Lower(n), t)
  /\ (/\ spc = "selected"
      /\ asset_arch_mapping = M_doc /\ machine = S_amd64
      /\ SeqToSet(selection.after_regex) = {N_tool_64, N_tool_arm64})
       => (selection.kind = "asset" /\ selection.name = N_tool_64)

\* C7 witness: the documented example has run and chose tool-64.zip.
C7_Witness ==
  /\ spc = "selected"
  /\ asset_arch_mapping = M_doc /\ machine = S_amd64
  /\ SeqToSet(selection.after_regex) = {N_tool_64, N_tool_arm64}
  /\ architectures = <<S_64>>
  /\ selection.name = N_tool_64

\* C8: the architecture filter keeps an asset only if its lower-cased name
\* holds an acceptable token delimited on both sides; armv7 does not match
\* the token arm64, and app-arm64-linux does.
C8_TokenNeedsBoundaries ==
  ArchStageReached =>
    /\ \A n \in SeqToSet(selection.after_arch) : HasArchToken(n)
    /\ (N_armv7 \in SeqToSet(selection.after_regex) /\ SeqToSet(architectures) \subseteq {S_aarch64, S_arm64})
         => N_armv7 \notin SeqToSet(selection.after_arch)
    /\ (N_app_arm64_linux \in SeqToSet(selection.after_regex) /\ S_arm64 \in SeqToSet(architectures))
         => N_app_arm64_linux \in SeqToSet(selection.after_arch)

\* C8 witness: with the token arm64 acceptable, the filter saw armv7 and
\* app-arm64-linux, kept the second and dropped the first.
C8_Witness ==
  /\ ArchStageReached
  /\ S_arm64 \in SeqToSet(architectures)
  /\ N_armv7 \in SeqToSet(selection.after_regex)
  /\ N_armv7 \notin SeqToSet(selection.after_arch)
  /\ N_app_arm64_linux \in SeqToSet(selection.after_arch)

\* the candidates left by the pattern, then the architecture, then the system
ByPattern == SelectSeq(assets, LAMBDA a : FullMatch(asset_regex, a.name))
ByArch    == SelectSeq(ByPattern, LAMBDA a : HasArchToken(a.name))
BySystem  == SelectSeq(ByArch, LAMBDA a : Contains(Lower(a.name), system))

\* C10: with more than one asset matching the pattern, select_asset narrows
\* by architecture and then by system: it returns the sole survivor of the
\* first stage that leaves one, fails at the architecture stage when that
\* filter leaves none, fails at the system stage when that filter leaves
\* none, and fails with the count N when N > 1 remain; it never returns an
\* asset while two or more candidates remain.
C10_FixedNarrowingOrder ==
  (spc = "selected" /\ Len(ByPattern) > 1) =>
    /\ Len(ByArch) = 0 => (selection.kind = "fail" /\ selection.stage = "arch")
    /\ Len(ByArch) = 1 => (selection.kind = "asset" /\ selection.name = ByArch[1].name)
    /\ (Len(ByArch) > 1 /\ Len(BySystem) = 0)
         => (selection.kind = "fail" /\ selection.stage = "system")
    /\ (Len(ByArch) > 1 /\ Len(BySystem) = 1)
         => (selection.kind = "asset" /\ selection.name = BySystem[1].name)
    /\ (Len(ByArch) > 1 /\ Len(BySystem) > 1)
         => (selection.kind = "fail" /\ selection.stage = "count"
             /\ selection.count = Len(BySystem))
    /\ selection.kind = "asset" => (Len(ByArch) = 1 \/ Len(BySystem) = 1)

\* C10 witness: the architecture filter left none and selection failed
\* there, although exactly one candidate names the host's system.
C10_Witness ==
  /\ spc = "selected" /\ Len(ByPattern) > 1
  /\ Len(ByArch) = 0
  /\ Len(SelectSeq(ByPattern, LAMBDA a : Contains(Lower(a.name), system))) = 1
  /\ selection.kind = "fail" /\ selection.stage = "arch"

\* ------------------------------------------------------------------------
\* Properties of the installed-version check, stated for Spec
\* ------------------------------------------------------------------------
\* the run has fetched the release and asked whether a download is required
Checked == verdict # "unknown"

\* C6: whenever a version file is configured, exists and holds exactly the
\* release's tag name, the run selects nothing, downloads nothing, moves
\* nothing, writes no version file and reports changed = FALSE; so does the
\* run that follows a successful installation with the same version file
\* and the same release.
C6_MarkerMatchSkipsEverything ==
  /\ (Checked /\ version_file # "" /\ content0.exists /\ content0.content = tag_name)
       => /\ pc = "exited" /\ exit = ExitJson(FALSE)
          /\ ops = {} /\ fs = fs0 /\ version_file_content = content0
  /\ (Checked /\ version_file # "" /\ prev.installed /\ prev.tag = tag_name)
       => /\ pc = "exited" /\ exit = ExitJson(FALSE)
          /\ ops = {} /\ fs = fs0 /\ version_file_content = content0

\* C6 witness: the second run, after an installation of the same release
\* that wrote the version file, has ended without doing anything.
C6_Witness ==
  /\ run = 2 /\ pc = "exited" /\ Checked
  /\ version_file # "" /\ prev.installed /\ prev.tag = tag_name
  /\ content0 = VersionFile(tag_name)
  /\ ops = {} /\ exit = ExitJson(FALSE)

ProbeFailed == probe.kind = "oserror" \/ probe.rc # 0

\* the run ended in is_download_required, before selecting an asset
AbortedByCheck == pc = "exited" /\ exit = FailJson /\ ops = {}

\* C9 as stated: when a version command is configured and the probe is not
\* found or exits with a non-zero status, is_download_required yields true
\* and the run is not aborted.
C9_ProbeFailureMeansReinstall ==
  (Checked /\ version_command # "" /\ ProbeFailed)
    => (verdict = "yes" /\ ~AbortedByCheck)

\* C9 as amended: when a version command is configured and it cannot be
\* started, is_download_required yields true and the run goes on to select
\* an asset; a command that runs and exits with a non-zero status is not
\* a failure to run: the run is aborted if its output holds no digit.
C9_NotFoundMeansReinstall ==
  /\ (Checked /\ version_command # "" /\ probe.kind = "oserror")
       => (verdict = "yes" /\ ~AbortedByCheck)
  /\ (Checked /\ version_command # "" /\ probe.kind = "ran" /\ probe.rc # 0
        /\ \A i \in 1..Len(probe.stdout) : probe.stdout[i] \notin DigitChars)
       => (verdict = "fatal" /\ pc = "exited" /\ exit = FailJson)

\* C9 witness: the version command was not found, the verdict is "download
\* required" and the run has gone on.
C9_Witness ==
  /\ version_command # "" /\ probe.kind = "oserror"
  /\ verdict = "yes" /\ pc = "download"


\* ------------------------------------------------------------------------
\* Properties of the classifying loop, stated for SpecClassify
\* ------------------------------------------------------------------------
Classified == AllSources(paths_to_move)

\* the entries of the extracted tree (the tree root is not one of them)
TreeEntries == {p \in DOMAIN fs : IsPrefix(extract_dir, p) /\ p # extract_dir}

ProperDescendant(q, p) == IsPrefix(p, q) /\ q # p

\* rule r fully matches the path of p relative to the tree root
RuleMatches(r, p) == FullMatch(move_rules[r]["src_regex"], relpath(p))

\* the places of the pending move set that hold p
Places(p) ==
  {pl \in UNION {{<<i, k>> : k \in 1..Len(paths_to_move[i].path_list)} :
                   i \in 1..Len(paths_to_move)} :
     paths_to_move[pl[1]].path_list[pl[2]] = p}

\* C11: during and after classification, whatever the tree, the listing
\* order and the order of the rules: no classified path is a proper
\* descendant of a classified path; no descendant of a directory that a rule
\* matches is classified; every classified path is in the pending move set
\* once, under the dst of the first rule of the list that fully matches its
\* relative path; and when classification has ended a matched entry is
\* classified unless one of its ancestors is.
C11_NoDescendantOfClassified ==
  cpc \in {"walking", "classified"} =>
    /\ \A p \in Classified : \A q \in Classified : ~ProperDescendant(q, p)
    /\ \A d \in TreeEntries :
         (IsDir(fs, d) /\ \E r \in 1..Len(move_rules) : RuleMatches(r, d))
           => \A q \in Classified : ~ProperDescendant(q, d)
    /\ \A i \in 1..Len(paths_to_move) : \A j \in 1..Len(paths_to_move) :
         paths_to_move[i].dest = paths_to_move[j].dest => i = j
    /\ \A p \in Classified :
         /\ p \in TreeEntries
         /\ Cardinality(Places(p)) = 1
         /\ \E r \in 1..Len(move_rules) :
              /\ RuleMatches(r, p)
              /\ \A j \in 1..(r - 1) : ~RuleMatches(j, p)
              /\ \A pl \in Places(p) : paths_to_move[pl[1]].dest = move_rules[r]["dst"]
    /\ cpc = "classified" =>
         \A p \in TreeEntries :
           (\E r \in 1..Len(move_rules) : RuleMatches(r, p))
             => \E a \in Classified : IsPrefix(a, p)

\* rules matching g/f and g, the file's rule first, on a tree that holds
\* both: only the directory g is in the pending move set
C11_Witness ==
  /\ cpc = "classified"
  /\ Len(move_rules) = 2
  /\ move_rules[1]["src_regex"] = <<"g", "/", "f">>
  /\ move_rules[2]["src_regex"] = <<"g">>
  /\ move_rules[1]["dst"] # move_rules[2]["dst"]
  /\ <<"t", "g", "f">> \in TreeEntries
  /\ <<"t", "g", "g", "f">> \in TreeEntries
  /\ Classified = {<<"t", "g">>}
  /\ paths_to_move = <<Entry(move_rules[2]["dst"], <<(<<"t", "g">>)>>)>>

====
